---------------------------- MODULE Spec2Model ----------------------------
(***************************************************************************)
(* Model of tuplex/adapters/cpython/src/PythonSerializer.cc: the           *)
(* materializer that rebuilds Python values from Tuplex's serialized row   *)
(* format (createPyObjectFromMemory, createPyTupleFromMemory,              *)
(* createPyListFromMemory, PyDict_FromCJSON), the size prober              *)
(* (serializationSize, checkTupleCapacity) and the entry point             *)
(* fromSerializedMemory.                                                   *)
(*                                                                         *)
(* Memory is a sequence of bytes (address a is element a+1).  Python       *)
(* objects are records [k, v] with v always a sequence; types are records  *)
(* [k, ps] with ps the sequence of component types.                        *)
(***************************************************************************)
EXTENDS Integers, Sequences, FiniteSets, TLC

VARIABLES pc, row_type, val, mem, capacity, walk, lst, dct, probe, batch

vars == <<pc, row_type, val, mem, capacity, walk, lst, dct, probe, batch>>

---------------------------------------------------------------------------
(* Bounds of the model *)

\* number of optional leaves of the widest generated tuple schema beyond 64
MaxExtraOpt == 1
\* largest number of nodes (tuples and leaves) of a generated nested i64 schema
MaxNodes == 6
\* largest number of strings in a generated string list
MaxListLen == 2
\* largest number of rows in a generated batch
MaxRows == 2
\* number of bytes of memory generated after the last row of a buffer
TailLen == 24
\* largest number of entries in a generated typed-dict document
MaxDictLen == 2

---------------------------------------------------------------------------
(* Program constants *)

\* sizeof(int64_t), SIZEOF_LONG
SIZEOF_LONG == 8

\* Magnitude standing for every 64-bit value too large for the model checker's
\* integers; every other quantity of the model is far below it.
Huge == 268435456

---------------------------------------------------------------------------
(* python::Type (Type.h is not part of the sources: from the description   *)
(* of the schema calculus)                                                 *)

Type_BOOLEAN == [k |-> "bool", ps |-> <<>>]
Type_I64 == [k |-> "i64", ps |-> <<>>]
Type_F64 == [k |-> "f64", ps |-> <<>>]
Type_STRING == [k |-> "string", ps |-> <<>>]
Type_NULLVALUE == [k |-> "null", ps |-> <<>>]
Type_EMPTYTUPLE == [k |-> "tuple", ps |-> <<>>]
Type_EMPTYDICT == [k |-> "emptydict", ps |-> <<>>]
Type_EMPTYLIST == [k |-> "emptylist", ps |-> <<>>]
Type_GENERICDICT == [k |-> "genericdict", ps |-> <<>>]
Type_PYOBJECT == [k |-> "pyobject", ps |-> <<>>]
\* a type tag outside the closed variant set
Type_UNKNOWN == [k |-> "unknown", ps |-> <<>>]

TupleType(ps) == [k |-> "tuple", ps |-> ps]
OptionType(t) == [k |-> "option", ps |-> <<t>>]
ListType(t) == [k |-> "list", ps |-> <<t>>]
DictType(kt, vt) == [k |-> "dict", ps |-> <<kt, vt>>]

isTupleType(t) == t.k = "tuple"
isOptionType(t) == t.k = "option"
isListType(t) == t.k \in {"list", "emptylist"}
isDictionaryType(t) == t.k \in {"dict", "emptydict"}
getReturnType(t) == t.ps[1]
elementType(t) == t.ps[1]
parameters(t) == t.ps

isSingleValued(t) == t \in {Type_NULLVALUE, Type_EMPTYTUPLE, Type_EMPTYDICT, Type_EMPTYLIST}

withoutOptions(t) == IF isOptionType(t) THEN getReturnType(t) ELSE t

RECURSIVE isFixedSizeType(_)
isFixedSizeType(t) ==
    CASE t.k \in {"bool", "i64", "f64", "null", "emptydict", "emptylist"} -> TRUE
      [] t.k = "tuple" -> \A i \in 1..Len(t.ps) : isFixedSizeType(t.ps[i])
      [] t.k = "option" -> isFixedSizeType(t.ps[1])
      [] OTHER -> FALSE

RECURSIVE SumSeq(_)
SumSeq(s) == IF s = <<>> THEN 0 ELSE Head(s) + SumSeq(Tail(s))

RECURSIVE Flatten(_)
Flatten(ss) == IF ss = <<>> THEN <<>> ELSE Head(ss) \o Flatten(Tail(ss))

RECURSIVE numOptionalFields(_)
numOptionalFields(t) ==
    CASE isTupleType(t) -> SumSeq([i \in 1..Len(t.ps) |-> numOptionalFields(t.ps[i])])
      [] isOptionType(t) -> 1
      [] OTHER -> 0

ceilToMultiple(x, base) == ((x + base - 1) \div base) * base

---------------------------------------------------------------------------
(* TupleTree (TupleTree.h is not part of the sources): the leaves of a     *)
(* tuple type in depth-first, left-to-right order.  A leaf is any          *)
(* component that is not a tuple, or the empty tuple.  Indices are the     *)
(* 0-based child indices of the code.                                      *)

isLeafType(t) == ~isTupleType(t) \/ t = Type_EMPTYTUPLE

RECURSIVE getMultiIndices(_)
getMultiIndices(t) ==
    Flatten([i \in 1..Len(t.ps) |->
        IF isLeafType(t.ps[i])
        THEN << <<i - 1>> >>
        ELSE LET sub == getMultiIndices(t.ps[i])
             IN [j \in 1..Len(sub) |-> <<i - 1>> \o sub[j]]])

RECURSIVE fieldType(_, _)
fieldType(t, index) ==
    IF index = <<>> THEN t ELSE fieldType(t.ps[Head(index) + 1], Tail(index))

---------------------------------------------------------------------------
(* Bytes and words *)

Pow2(n) == CASE n = 0 -> 1 [] n = 1 -> 2 [] n = 2 -> 4 [] n = 3 -> 8
             [] n = 4 -> 16 [] n = 5 -> 32 [] n = 6 -> 64 [] n = 7 -> 128

\* bit `b` (0..7) of byte `x`
BitOfByte(x, b) == (x \div Pow2(b)) % 2 = 1

\* the byte at address a; every address the model reads lies in the buffer
ByteAt(m, a) == m[a + 1]

\* the 8 little-endian bytes of the 64-bit two's complement of n
LE64(n) ==
    IF n >= 0
    THEN <<n % 256, (n \div 256) % 256, (n \div 65536) % 256,
           (n \div 16777216) % 256, 0, 0, 0, 0>>
    ELSE LET c == -n - 1
         IN <<255 - (c % 256), 255 - ((c \div 256) % 256),
              255 - ((c \div 65536) % 256), 255 - ((c \div 16777216) % 256),
              255, 255, 255, 255>>

\* *(int64_t*)(m + a).  A value that does not fit the model checker's integers is
\* represented by Huge or -Huge, by its sign bit.
ReadI64(m, a) ==
    LET b(i) == ByteAt(m, a + i)
        low == b(0) + 256 * b(1) + 65536 * b(2)
        lowc == (255 - b(0)) + 256 * (255 - b(1)) + 65536 * (255 - b(2))
    IN  IF \A i \in 3..7 : b(i) = 0 THEN low
        ELSE IF \A i \in 3..7 : b(i) = 255 THEN -lowc - 1
        ELSE IF b(7) >= 128 THEN -Huge ELSE Huge

\* *(uint32_t*)(m + a), as two 16-bit halves: hi * 65536 + lo
ReadU32(m, a) ==
    [hi |-> ByteAt(m, a + 2) + 256 * ByteAt(m, a + 3),
     lo |-> ByteAt(m, a) + 256 * ByteAt(m, a + 1)]

\* a uint32_t used as an address offset or a length (small in every row the
\* materializer is run on)
U32Int(u) == IF u.hi < 4096 THEN u.hi * 65536 + u.lo ELSE Huge

\* uint32_t + uint32_t: unsigned 32-bit arithmetic wraps modulo 2^32
AddU32(x, y) ==
    LET lo == x.lo + y.lo
        hi == x.hi + y.hi + (lo \div 65536)
    IN [hi |-> hi % 65536, lo |-> lo % 65536]

\* the sum of two uint32_t as a mathematical integer, in 16-bit limbs
\* (w2 is the carry out of 32 bits)
MathSumU32(x, y) ==
    LET lo == x.lo + y.lo
        hi == x.hi + y.hi + (lo \div 65536)
    IN [w2 |-> hi \div 65536, hi |-> hi % 65536, lo |-> lo % 65536]

\* (uint32_t) u > (int64_t) c: the uint32_t converts to int64_t unchanged
U32GreaterThan(u, c) ==
    IF c < 0 THEN TRUE
    ELSE IF u.hi # c \div 65536 THEN u.hi > c \div 65536
    ELSE u.lo > c % 65536

\* a limb triple (mathematical integer) > c, for 0 <= c < 2^31
LimbsGreaterThan(t, c) ==
    IF c < 0 THEN TRUE
    ELSE t.w2 > 0 \/ U32GreaterThan([hi |-> t.hi, lo |-> t.lo], c)

LE32(n) == <<n % 256, (n \div 256) % 256, (n \div 65536) % 256, (n \div 16777216) % 256>>

\* packed varlen descriptor: low 32 bits offset, high 32 bits length
Descriptor(offset, length) == LE32(offset) \o LE32(length)

---------------------------------------------------------------------------
(* Python objects of the host runtime *)

NULLPTR == [k |-> "nullptr", v |-> <<>>]
Py_None == [k |-> "None", v |-> <<>>]
PyLong_FromLong(n) == [k |-> "int", v |-> <<n>>]
PyBool_FromLong(n) == [k |-> "bool", v |-> <<IF n # 0 THEN 1 ELSE 0>>]
\* a double is represented by its 64-bit pattern
PyFloat_FromDouble(bits) == [k |-> "float", v |-> <<bits>>]
PyStr(bytes) == [k |-> "str", v |-> bytes]
PyTuple(items) == [k |-> "tuple", v |-> items]
PyList(items) == [k |-> "list", v |-> items]
\* a dict is the sequence of its <<key, value>> pairs in insertion order
PyDict(pairs) == [k |-> "dict", v |-> pairs]

\* PyUnicode_DecodeUTF8(m + a, n, nullptr) on the model's alphabet (ASCII and
\* the byte 255, which no UTF-8 text contains): a negative size or an invalid
\* byte yields no object.
PyUnicode_DecodeUTF8(m, a, n) ==
    IF n < 0 THEN NULLPTR
    ELSE IF \E i \in 0..(n - 1) : ByteAt(m, a + i) >= 128 THEN NULLPTR
    ELSE PyStr([i \in 1..n |-> ByteAt(m, a + i - 1)])

---------------------------------------------------------------------------
(* KeyValueJSONDecoder: PyObj_FromCJSONKey, PyObj_FromCJSONVal,            *)
(* PyDict_FromCJSON.  Text is a sequence of character codes.               *)

Ch_s == 115
Ch_b == 98
Ch_i == 105
Ch_f == 102
Ch_underscore == 95
Ch_quote == 34
Ch_colon == 58
Ch_comma == 44
Ch_lbrace == 123
Ch_rbrace == 125
Ch_0 == 48
Ch_9 == 57
Ch_minus == 45

Text_True == <<84, 114, 117, 101>>
Text_False == <<70, 97, 108, 115, 101>>
Text_true == <<116, 114, 117, 101>>
Text_false == <<102, 97, 108, 115, 101>>

isDigit(c) == c >= Ch_0 /\ c <= Ch_9

RECURSIVE DecimalValue(_, _)
DecimalValue(text, acc) ==
    IF text = <<>> THEN acc
    ELSE DecimalValue(Tail(text), 10 * acc + (Head(text) - Ch_0))

isDecimal(text) == text # <<>> /\ \A i \in 1..Len(text) : isDigit(text[i])

RECURSIVE DecimalText(_)
DecimalText(n) ==
    IF n < 10 THEN <<Ch_0 + n>> ELSE DecimalText(n \div 10) \o <<Ch_0 + (n % 10)>>

\* PyLong_FromString(text, nullptr, 10): an optional sign and decimal digits
PyLong_FromString(text) ==
    IF isDecimal(text) THEN PyLong_FromLong(DecimalValue(text, 0))
    ELSE IF text # <<>> /\ Head(text) = Ch_minus /\ isDecimal(Tail(text))
         THEN PyLong_FromLong(-DecimalValue(Tail(text), 0))
    ELSE NULLPTR

\* strtod(text, nullptr) on decimal integers: the longest numeric prefix, 0 if none
RECURSIVE DigitPrefix(_)
DigitPrefix(text) ==
    IF text = <<>> \/ ~isDigit(Head(text)) THEN <<>>
    ELSE <<Head(text)>> \o DigitPrefix(Tail(text))

strtod(text) == DecimalValue(DigitPrefix(text), 0)

\* PyUnicode_DecodeUTF8(text, strlen(text), nullptr)
DecodeText(text) ==
    IF \E i \in 1..Len(text) : text[i] >= 128 THEN NULLPTR ELSE PyStr(text)

PyObj_FromCJSONKey(serializedKey) ==
    LET keyString == SubSeq(serializedKey, 3, Len(serializedKey))
        tag == serializedKey[1]
    IN  CASE tag = Ch_s -> DecodeText(keyString)
          [] tag = Ch_b -> IF keyString = Text_True THEN PyBool_FromLong(1)
                           ELSE IF keyString = Text_False THEN PyBool_FromLong(0)
                           ELSE Py_None
          [] tag = Ch_i -> PyLong_FromString(keyString)
          [] tag = Ch_f -> PyFloat_FromDouble(strtod(keyString))
          [] OTHER -> Py_None

\* A cJSON item: [string (the key), type, valuestring, valuedouble].
\* valuestring of an item that is not a string is a null pointer, and
\* strlen of it does not return: no object is produced.
cJSON_IsTrue(obj) == obj.type = "True"

PyObj_FromCJSONVal(obj, type) ==
    CASE type = Ch_s -> IF obj.type = "String" THEN DecodeText(obj.valuestring)
                        ELSE NULLPTR
      [] type = Ch_b -> IF cJSON_IsTrue(obj) THEN PyBool_FromLong(1)
                        ELSE PyBool_FromLong(0)
      [] type = Ch_i -> PyLong_FromLong(obj.valuedouble)
      [] type = Ch_f -> PyFloat_FromDouble(obj.valuedouble)
      [] OTHER -> Py_None

\* PyDict_SetItem(dictObj, keyObj, valObj): a present key keeps its place and
\* takes the new value; a missing key or value inserts nothing
PyDict_SetItem(dictObj, keyObj, valObj) ==
    IF keyObj = NULLPTR \/ valObj = NULLPTR THEN dictObj
    ELSE IF \E j \in 1..Len(dictObj.v) : dictObj.v[j][1] = keyObj
    THEN PyDict([j \in 1..Len(dictObj.v) |->
                    IF dictObj.v[j][1] = keyObj THEN <<keyObj, valObj>>
                    ELSE dictObj.v[j]])
    ELSE PyDict(Append(dictObj.v, <<keyObj, valObj>>))

\* the loop of PyDict_FromCJSON passing the key's first character instead
ValueTypeChar_First(key) == key[1]

\* the type character the loop of PyDict_FromCJSON passes for a key: key[1]
\* of the C string, its second character
ValueTypeChar(key) == key[2]

\* one iteration of the while loop of PyDict_FromCJSON on child cur_item
PyDict_FromCJSON_Item(dictObj, cur_item) ==
    LET key == cur_item.string
        keyObj == PyObj_FromCJSONKey(key)
        valObj == PyObj_FromCJSONVal(cur_item, ValueTypeChar(key))
    IN PyDict_SetItem(dictObj, keyObj, valObj)

RECURSIVE PyDict_FromCJSON_From(_, _)
PyDict_FromCJSON_From(dictObj, items) ==
    IF items = <<>> THEN dictObj
    ELSE PyDict_FromCJSON_From(PyDict_FromCJSON_Item(dictObj, Head(items)), Tail(items))

\* dict: the children of the parsed document, in order
PyDict_FromCJSON(dict) == PyDict_FromCJSON_From(PyDict(<<>>), dict)

---------------------------------------------------------------------------
(* cJSON_Parse (the cJSON library is not part of the sources) on the       *)
(* documents the model generates: one object of "key":value members with   *)
(* string, decimal, true and false values, no white space, no escapes.     *)

\* the NUL-terminated text at address a
RECURSIVE CString(_, _)
CString(m, a) ==
    IF ByteAt(m, a) = 0 THEN <<>> ELSE <<ByteAt(m, a)>> \o CString(m, a + 1)

RECURSIVE TakeUntil(_, _)
TakeUntil(text, c) ==
    IF text = <<>> \/ Head(text) = c THEN <<>>
    ELSE <<Head(text)>> \o TakeUntil(Tail(text), c)

Drop(text, n) == SubSeq(text, n + 1, Len(text))

StartsWith(text, pre) == Len(text) >= Len(pre) /\ SubSeq(text, 1, Len(pre)) = pre

cJSON_String(key, body) ==
    [string |-> key, type |-> "String", valuestring |-> body, valuedouble |-> 0]
cJSON_Number(key, n) ==
    [string |-> key, type |-> "Number", valuestring |-> <<>>, valuedouble |-> n]
cJSON_Bool(key, b) ==
    [string |-> key, type |-> IF b THEN "True" ELSE "False",
     valuestring |-> <<>>, valuedouble |-> 0]

cJSON_Failed == [ok |-> FALSE, child |-> <<>>]

\* text starts at the opening quote of a member's key
RECURSIVE ParseMembers(_, _)
ParseMembers(text, acc) ==
    IF text = <<>> \/ Head(text) # Ch_quote THEN cJSON_Failed
    ELSE
    LET key == TakeUntil(Tail(text), Ch_quote)
        afterKey == Drop(text, Len(key) + 2)
    IN  IF afterKey = <<>> \/ Head(afterKey) # Ch_colon THEN cJSON_Failed
        ELSE
        LET vtext == Tail(afterKey)
            body == TakeUntil(Drop(vtext, 1), Ch_quote)
            digits == DigitPrefix(vtext)
            item == CASE vtext # <<>> /\ Head(vtext) = Ch_quote -> cJSON_String(key, body)
                      [] digits # <<>> -> cJSON_Number(key, DecimalValue(digits, 0))
                      [] StartsWith(vtext, Text_true) -> cJSON_Bool(key, TRUE)
                      [] StartsWith(vtext, Text_false) -> cJSON_Bool(key, FALSE)
                      [] OTHER -> cJSON_Failed
            used == CASE vtext # <<>> /\ Head(vtext) = Ch_quote -> Len(body) + 2
                      [] digits # <<>> -> Len(digits)
                      [] StartsWith(vtext, Text_true) -> Len(Text_true)
                      [] StartsWith(vtext, Text_false) -> Len(Text_false)
                      [] OTHER -> 0
            rest == Drop(vtext, used)
        IN  IF item = cJSON_Failed \/ rest = <<>> THEN cJSON_Failed
            ELSE IF Head(rest) = Ch_rbrace THEN [ok |-> TRUE, child |-> Append(acc, item)]
            ELSE IF Head(rest) = Ch_comma THEN ParseMembers(Tail(rest), Append(acc, item))
            ELSE cJSON_Failed

cJSON_Parse(text) ==
    IF text = <<>> \/ Head(text) # Ch_lbrace THEN cJSON_Failed
    ELSE IF Len(text) >= 2 /\ text[2] = Ch_rbrace THEN [ok |-> TRUE, child |-> <<>>]
    ELSE ParseMembers(Tail(text), <<>>)

\* the text cJSON prints for an item and for a document (the inverse the
\* serializer uses)
cJSON_PrintItem(item) ==
    <<Ch_quote>> \o item.string \o <<Ch_quote, Ch_colon>> \o
    (CASE item.type = "String" -> <<Ch_quote>> \o item.valuestring \o <<Ch_quote>>
       [] item.type = "Number" -> DecimalText(item.valuedouble)
       [] item.type = "True" -> Text_true
       [] OTHER -> Text_false)

RECURSIVE cJSON_PrintMembers(_)
cJSON_PrintMembers(items) ==
    IF items = <<>> THEN <<>>
    ELSE cJSON_PrintItem(Head(items)) \o
         (IF Tail(items) = <<>> THEN <<>> ELSE <<Ch_comma>>) \o
         cJSON_PrintMembers(Tail(items))

cJSON_Print(items) == <<Ch_lbrace>> \o cJSON_PrintMembers(items) \o <<Ch_rbrace>>

\* createPyDictFromMemory: a document that does not parse throws (debug
\* build) or dereferences a null pointer: no object is produced
createPyDictFromMemory(m, ptr) ==
    LET offset == U32Int(ReadU32(m, ptr))
        dict == cJSON_Parse(CString(m, ptr + offset))
    IN IF dict.ok THEN PyDict_FromCJSON(dict.child) ELSE NULLPTR

---------------------------------------------------------------------------
(* The row layout the serializer writes (Serializer.cc is not part of the  *)
(* sources: from the description of the row layout): bitmap words, one     *)
(* 8-byte slot per leaf that is not single-valued, and for a row that is   *)
(* not of fixed size the 64-bit total length of the varlen region and the  *)
(* region itself.  Descriptor offsets are measured from the owning slot.   *)

\* the leaves of a row: the tree leaves of a tuple, else the row itself
RowLeafPaths(t) ==
    IF isTupleType(t) /\ t # Type_EMPTYTUPLE THEN getMultiIndices(t) ELSE << <<>> >>

RowLeafTypes(t) ==
    LET paths == RowLeafPaths(t) IN [i \in 1..Len(paths) |-> fieldType(t, paths[i])]

RECURSIVE ValueAt(_, _)
ValueAt(v, index) ==
    IF index = <<>> THEN v ELSE ValueAt(v.v[Head(index) + 1], Tail(index))

RowLeafValues(v, t) ==
    LET paths == RowLeafPaths(t) IN [i \in 1..Len(paths) |-> ValueAt(v, paths[i])]

hasSlot(t) == ~isSingleValued(withoutOptions(t))

\* how many of the first n elements of the sequence of types satisfy P
CountTypes(P(_), types, n) == Cardinality({i \in 1..n : P(types[i])})

\* the bytes a leaf adds to the varlen region
LeafPayload(t, v) ==
    IF v.k = "str" THEN v.v \o <<0>>
    ELSE IF v.k = "dict" /\ withoutOptions(t).k \in {"dict", "genericdict"}
         THEN cJSON_Print(v.v) \o <<0>>
    ELSE <<>>

\* bit k of the bitmap is 1 iff the k-th optional leaf is null
BitmapBytes(types, values) ==
    LET K == CountTypes(isOptionType, types, Len(types))
        nbytes == (ceilToMultiple(K, 64) \div 64) * SIZEOF_LONG
        nulls == {CountTypes(isOptionType, types, i - 1) :
                    i \in {j \in 1..Len(types) :
                             isOptionType(types[j]) /\ values[j].k = "None"}}
    IN [j \in 1..nbytes |->
          SumSeq([b \in 1..8 |-> IF (8 * (j - 1) + (b - 1)) \in nulls
                                 THEN Pow2(b - 1) ELSE 0])]

serializeLeaves(types, values, fixed) ==
    LET n == Len(types)
        nslots == CountTypes(hasSlot, types, n)
        payload == [i \in 1..n |-> LeafPayload(types[i], values[i])]
        slotAddr(i) == SIZEOF_LONG * CountTypes(hasSlot, types, i - 1)
        payloadAddr(i) == SIZEOF_LONG * nslots + SIZEOF_LONG
                            + SumSeq([j \in 1..(i - 1) |-> Len(payload[j])])
        slot(i) ==
            CASE ~hasSlot(types[i]) -> <<>>
              [] values[i].k \in {"int", "bool", "float"} -> LE64(values[i].v[1])
              [] values[i].k \in {"str", "dict"} ->
                    Descriptor(payloadAddr(i) - slotAddr(i), Len(payload[i]))
              [] OTHER -> LE64(0)
        total == SumSeq([j \in 1..n |-> Len(payload[j])])
    IN  BitmapBytes(types, values)
        \o Flatten([i \in 1..n |-> slot(i)])
        \o (IF fixed THEN <<>> ELSE LE64(total) \o Flatten(payload))

serialize(v, t) == serializeLeaves(RowLeafTypes(t), RowLeafValues(v, t), isFixedSizeType(t))

---------------------------------------------------------------------------
(* The values of a type, over small domains *)

IntVals == {7, 300}
\* "", "hi", and one byte that is not UTF-8
StrVals == {<<>>, <<104, 105>>, <<255>>}

RECURSIVE SeqProduct(_)
SeqProduct(sets) ==
    IF sets = <<>> THEN {<<>>}
    ELSE {<<x>> \o rest : x \in Head(sets), rest \in SeqProduct(Tail(sets))}

RECURSIVE Values(_)
Values(t) ==
    CASE t.k = "i64" -> {PyLong_FromLong(n) : n \in IntVals}
      [] t.k = "f64" -> {PyFloat_FromDouble(n) : n \in IntVals}
      [] t.k = "bool" -> {PyBool_FromLong(0), PyBool_FromLong(1)}
      [] t.k = "string" -> {PyStr(x) : x \in StrVals}
      [] t.k = "null" -> {Py_None}
      [] t.k = "emptydict" -> {PyDict(<<>>)}
      [] t.k = "emptylist" -> {PyList(<<>>)}
      [] t.k = "option" -> {Py_None} \cup Values(t.ps[1])
      [] t.k = "tuple" ->
            {PyTuple(x) : x \in SeqProduct([i \in 1..Len(t.ps) |-> Values(t.ps[i])])}
      [] OTHER -> {Py_None}

---------------------------------------------------------------------------
(* RowMaterializer: createPyObjectFromMemory, createPyListFromMemory and   *)
(* the tuple walk createPyTupleFromMemory.  An absent bitmap (nullptr) is  *)
(* the address -1.                                                         *)

NoBitmap == -1

\* python::deserializePickledObject (not part of the sources): an opaque
\* function of the pickled bytes
deserializePickledObject(m, buf, buf_size) ==
    [k |-> "unpickled", v |-> [i \in 1..buf_size |-> ByteAt(m, buf + i - 1)]]

\* bitmap[index/64] & (1UL << (index % 64)) with bitmap a const uint8_t*:
\* the byte at index/64, of which only bits 0..7 exist
is_null(m, bitmap, index) ==
    LET byte == ByteAt(m, bitmap + (index \div 64))
        bit == index % 64
    IN bit < 8 /\ BitOfByte(byte, bit)

\* Containers under construction live in a heap (a sequence, an object's id
\* is its position).  A slot holds NULLPTR until PyTuple_SetItem fills it;
\* sets counts the assignments of each slot.
Ref(id) == [k |-> "ref", v |-> <<id>>]

PyTuple_New(heap, n) ==
    Append(heap, [items |-> [i \in 1..n |-> NULLPTR], sets |-> [i \in 1..n |-> 0]])

PyTuple_SetItem(heap, id, pos, x) ==
    [heap EXCEPT ![id] = [items |-> [@.items EXCEPT ![pos + 1] = x],
                          sets |-> [@.sets EXCEPT ![pos + 1] = @ + 1]]]

\* the finished value of container id
RECURSIVE Reify(_, _)
Reify(heap, id) ==
    PyTuple([i \in 1..Len(heap[id].items) |->
                IF heap[id].items[i].k = "ref"
                THEN Reify(heap, heap[id].items[i].v[1])
                ELSE heap[id].items[i]])

Min(a, b) == IF a < b THEN a ELSE b

\* lines 99-109: the first position where prev and curr differ, -1 if none
RECURSIVE FirstDiff(_, _, _)
FirstDiff(prev, curr, i) ==
    IF i >= Min(Len(prev), Len(curr)) THEN -1
    ELSE IF prev[i + 1] # curr[i + 1] THEN i
    ELSE FirstDiff(prev, curr, i + 1)

\* lines 99-109 with the divergence index counted from 1
position_diff_OneBased(prev, curr) ==
    IF prev = <<>> THEN 0 ELSE FirstDiff(prev, curr, 0) + 1

position_diff(prev, curr) == IF prev = <<>> THEN 0 ELSE FirstDiff(prev, curr, 0)

\* lines 111-115: pop obj_stack.size() - position_diff containers.  The count
\* is unsigned: when position_diff exceeds the size it wraps to a huge number
\* and the loop pops an empty vector (w.ub).
RECURSIVE PopContainers(_, _)
PopContainers(w, n) ==
    IF n = 0 THEN w
    ELSE IF w.obj_stack = <<>> THEN [w EXCEPT !.ub = TRUE]
    ELSE PopContainers([w EXCEPT !.curr_obj = w.obj_stack[Len(w.obj_stack)],
                                 !.obj_stack = SubSeq(w.obj_stack, 1, Len(w.obj_stack) - 1)],
                       n - 1)

\* line 111 popping nothing: the walk stays in the previous leaf's tuple
num_elem_to_pop_None(w, diff) == 0

num_elem_to_pop(w, diff) ==
    IF Len(w.obj_stack) >= diff THEN Len(w.obj_stack) - diff ELSE Huge

\* lines 116-127: allocate the tuples from depth i down to the leaf's parent
RECURSIVE Descend(_, _, _)
Descend(w, curr, i) ==
    IF i >= Len(curr) - 1 THEN w
    ELSE LET curr_index_value == curr[i + 1]
             curr_index_stack == SubSeq(curr, 1, i + 1)
             size == Len(parameters(fieldType(w.row_type, curr_index_stack)))
             new_tuple == Len(w.heap) + 1
             heap1 == PyTuple_New(w.heap, size)
         IN Descend([w EXCEPT
                        !.heap = PyTuple_SetItem(heap1, w.curr_obj, curr_index_value,
                                                 Ref(new_tuple)),
                        !.obj_stack = Append(w.obj_stack, w.curr_obj),
                        !.curr_obj = new_tuple],
                    curr, i + 1)

\* line 133
NextBitmapIndex(bitmap_index, current_type, elem) ==
    IF isOptionType(current_type) THEN bitmap_index + 1 ELSE bitmap_index

\* lines 139-140 without the withoutOptions() call
NextBufferIndex_OptionsKept(current_buffer_index, current_type) ==
    IF ~isSingleValued(current_type)
    THEN current_buffer_index + SIZEOF_LONG
    ELSE current_buffer_index

\* lines 139-140
NextBufferIndex(current_buffer_index, current_type) ==
    IF ~isSingleValued(withoutOptions(current_type))
    THEN current_buffer_index + SIZEOF_LONG
    ELSE current_buffer_index

\* lines 81-94: the state of the walk before the first leaf
WalkInit(ptr, t) ==
    [status |-> "running", row_type |-> t, i |-> 1,
     bitmap |-> ptr,
     ptr |-> ptr + SIZEOF_LONG * (ceilToMultiple(numOptionalFields(t), 64) \div 64),
     heap |-> PyTuple_New(<<>>, Len(parameters(t))),
     obj |-> 1, obj_stack |-> <<>>, curr_obj |-> 1,
     prev |-> <<>>, current_buffer_index |-> 0, bitmap_index |-> 0,
     ub |-> FALSE]

RECURSIVE createPyObjectFromMemory(_, _, _, _, _)
RECURSIVE createPyTupleFromMemory(_, _, _)
RECURSIVE createPyListFromMemory(_, _, _)
RECURSIVE ListFrom(_, _)
RECURSIVE WalkFrom(_, _)

\* lines 96-143: one iteration of the loop over tree.getMultiIndices()
WalkLeaf(w, m) ==
    LET curr == getMultiIndices(w.row_type)[w.i]
        diff == position_diff(w.prev, curr)
        popped == IF diff # -1 THEN PopContainers(w, num_elem_to_pop(w, diff)) ELSE w
        w1 == IF diff # -1 /\ ~popped.ub THEN Descend(popped, curr, diff) ELSE popped
        curr_index == curr[Len(curr)]
        current_type == fieldType(w.row_type, curr)
        elem_to_insert == createPyObjectFromMemory(m, w.ptr + w.current_buffer_index,
                                                   current_type, w.bitmap, w.bitmap_index)
        bi == NextBitmapIndex(w.bitmap_index, current_type, elem_to_insert)
    IN  IF w1.ub THEN [w1 EXCEPT !.status = "undefined"]
        ELSE IF elem_to_insert = NULLPTR
        THEN [w1 EXCEPT !.status = "failed", !.bitmap_index = bi]
        ELSE [w1 EXCEPT
                !.heap = PyTuple_SetItem(w1.heap, w1.curr_obj, curr_index, elem_to_insert),
                !.bitmap_index = bi,
                !.current_buffer_index = NextBufferIndex(w.current_buffer_index, current_type),
                !.prev = curr,
                !.i = w.i + 1]

\* line 145
WalkReturn(w) == [w EXCEPT !.status = "returned"]

WalkAtEnd(w) == w.i > Len(getMultiIndices(w.row_type))

WalkFrom(w, m) ==
    IF w.status # "running" THEN w
    ELSE IF WalkAtEnd(w) THEN WalkReturn(w)
    ELSE WalkFrom(WalkLeaf(w, m), m)

createPyTupleFromMemory(m, ptr, t) ==
    LET w == WalkFrom(WalkInit(ptr, t), m)
    IN IF w.status = "returned" THEN Reify(w.heap, w.obj) ELSE NULLPTR

\* lines 173-191: a list of a single-valued element type
SingleValuedElement(elementType_) ==
    CASE elementType_ = Type_NULLVALUE -> Py_None
      [] elementType_ = Type_EMPTYDICT -> PyDict(<<>>)
      [] elementType_ = Type_EMPTYTUPLE -> PyTuple(<<>>)
      [] OTHER -> PyList(<<>>)

\* lines 194-204: the state of the loop before the first element
ListInit(m, ptr, t) ==
    LET offset == U32Int(ReadU32(m, ptr))
        length == U32Int(ReadU32(m, ptr + 4))
        numElements == ReadI64(m, ptr + offset)
    IN [status |-> "running", elementType |-> elementType(t),
        length |-> length, numElements |-> numElements,
        ptr |-> ptr + offset + SIZEOF_LONG, i |-> 0, ret |-> <<>>]

\* lines 216-228: the address and the byte length the code computes for
\* string i, l.ptr being the address of its offset slot
curStrAddr_FirstSlot(l, curStrOffset) == (l.ptr - SIZEOF_LONG * l.i) + curStrOffset

curStrAddr(l, curStrOffset) == l.ptr + curStrOffset

curStrLen(m, l, curStrOffset) ==
    IF l.i = l.numElements - 1
    THEN (l.length - (l.numElements * SIZEOF_LONG)) - curStrOffset
    ELSE ReadI64(m, l.ptr + SIZEOF_LONG) - (curStrOffset - SIZEOF_LONG)

\* lines 206-236: one iteration of the loop
ListElement(l, m) ==
    LET et == l.elementType
        curStrOffset == ReadI64(m, l.ptr)
        element ==
            CASE et = Type_I64 -> PyLong_FromLong(ReadI64(m, l.ptr))
              [] et = Type_F64 -> PyFloat_FromDouble(ReadI64(m, l.ptr))
              [] et = Type_BOOLEAN -> PyBool_FromLong(ReadI64(m, l.ptr))
              [] et = Type_STRING ->
                    PyUnicode_DecodeUTF8(m, curStrAddr(l, curStrOffset),
                                         curStrLen(m, l, curStrOffset) - 1)
              [] isTupleType(et) -> createPyTupleFromMemory(m, l.ptr, et)
              [] isDictionaryType(et) -> createPyDictFromMemory(m, l.ptr)
              [] OTHER -> NULLPTR
    IN [l EXCEPT !.ret = Append(l.ret, element),
                 !.ptr = l.ptr + SIZEOF_LONG,
                 !.i = l.i + 1]

ListAtEnd(l) == l.i >= l.numElements

\* line 237
ListReturn(l) == [l EXCEPT !.status = "returned"]

ListFrom(l, m) ==
    IF l.status # "running" THEN l
    ELSE IF ListAtEnd(l) THEN ListReturn(l)
    ELSE ListFrom(ListElement(l, m), m)

createPyListFromMemory(m, ptr, t) ==
    IF isSingleValued(elementType(t))
    THEN PyList([i \in 1..ReadI64(m, ptr) |-> SingleValuedElement(elementType(t))])
    ELSE PyList(ListFrom(ListInit(m, ptr, t), m).ret)

createPyObjectFromMemory(m, ptr, t, bitmap, index) ==
    CASE t = Type_BOOLEAN -> PyBool_FromLong(ByteAt(m, ptr))
      [] t = Type_I64 -> PyLong_FromLong(ReadI64(m, ptr))
      [] t = Type_F64 -> PyFloat_FromDouble(ReadI64(m, ptr))
      [] t = Type_STRING ->
            LET offset == U32Int(ReadU32(m, ptr))
                length == U32Int(ReadU32(m, ptr + 4))
            IN PyUnicode_DecodeUTF8(m, ptr + offset, IF length = 0 THEN Huge ELSE length - 1)
      [] t = Type_EMPTYTUPLE -> PyTuple(<<>>)
      [] isTupleType(t) -> createPyTupleFromMemory(m, ptr, t)
      [] t = Type_EMPTYDICT -> PyDict(<<>>)
      [] isDictionaryType(t) \/ t = Type_GENERICDICT -> createPyDictFromMemory(m, ptr)
      [] t = Type_EMPTYLIST -> PyList(<<>>)
      [] isListType(t) -> createPyListFromMemory(m, ptr, t)
      [] isOptionType(t) ->
            LET own == bitmap = NoBitmap
                bm == IF own THEN ptr ELSE bitmap
                ix == IF own THEN 0 ELSE index
                p == IF own THEN ptr + SIZEOF_LONG ELSE ptr
            IN IF is_null(m, bm, ix) THEN Py_None
               ELSE createPyObjectFromMemory(m, p, getReturnType(t), NoBitmap, 0)
      [] t = Type_PYOBJECT ->
            LET offset == U32Int(ReadU32(m, ptr))
                buf_size == U32Int(ReadU32(m, ptr + 4))
            IN deserializePickledObject(m, ptr + offset, buf_size)
      [] OTHER -> Py_None

---------------------------------------------------------------------------
(* SizeProber: checkTupleCapacity, serializationSize; the entry point      *)
(* fromSerializedMemory.                                                   *)

\* an unsigned 64-bit comparison a > b for b >= 0: a negative a has wrapped
\* to a huge unsigned number
UnsignedGreater(a, b) == a < 0 \/ a > b

checkTupleCapacity(m, ptr, cap, t) ==
    LET indices == getMultiIndices(t)
        num_bytes == Len(indices) * SIZEOF_LONG
        num_bitmap_fields == ceilToMultiple(numOptionalFields(t), 64) \div 64
        varlen_field_length == ReadI64(m, ptr + SIZEOF_LONG * num_bitmap_fields + num_bytes)
    IN  IF num_bytes > cap THEN -1
        ELSE IF UnsignedGreater(SIZEOF_LONG * num_bitmap_fields + num_bytes
                                  + varlen_field_length, cap)
        THEN -1
        ELSE num_bytes

\* line 337-340: the row types whose slot is a packed varlen descriptor
hasVarlenDescriptor(t) ==
    /\ \/ t = Type_STRING
       \/ isDictionaryType(t)
       \/ t = Type_GENERICDICT
       \/ (isListType(t) /\ t # Type_EMPTYLIST /\ ~isSingleValued(elementType(t)))
    /\ t # Type_EMPTYDICT

\* line 344: offset + length > capacity, offset and length being uint32_t
descriptorOverflows(offset, length, cap) == U32GreaterThan(AddU32(offset, length), cap)

serializationSize(m, ptr0, cap, t) ==
    LET num_bitmap_fields == ceilToMultiple(numOptionalFields(t), 64) \div 64
        ptr == ptr0 + SIZEOF_LONG * num_bitmap_fields
        capacitySize0 ==
            IF hasVarlenDescriptor(t)
            THEN IF descriptorOverflows(ReadU32(m, ptr), ReadU32(m, ptr + 4), cap)
                 THEN -1 ELSE SIZEOF_LONG
            ELSE IF t # Type_EMPTYTUPLE /\ isTupleType(t)
                 THEN checkTupleCapacity(m, ptr, cap, t)
            ELSE SIZEOF_LONG
        capacitySize1 == capacitySize0 + SIZEOF_LONG * num_bitmap_fields
    IN  IF isSingleValued(t) THEN 0
        ELSE IF isOptionType(t) /\ isSingleValued(getReturnType(t))
        THEN SIZEOF_LONG * num_bitmap_fields
        ELSE IF capacitySize0 <= -1 THEN capacitySize0
        ELSE IF ~isFixedSizeType(t)
        THEN capacitySize1 + ReadI64(m, ptr + capacitySize1) + SIZEOF_LONG
        ELSE capacitySize1

\* line 398 counting the null sentinel as no value
entryResult_NoneFails(obj) == obj # NULLPTR /\ obj # Py_None

\* line 398: return *obj != nullptr
entryResult(obj) == obj # NULLPTR

fromSerializedMemory(m, ptr, cap, t) ==
    LET obj == createPyObjectFromMemory(m, ptr, t, NoBitmap, 0)
    IN [obj |-> obj,
        nextptr |-> ptr + serializationSize(m, ptr, cap, t),
        ret |-> entryResult(obj)]

---------------------------------------------------------------------------
(* Inputs of the tuple walk *)

\* every tuple schema of i64 leaves with at most MaxNodes nodes
RECURSIVE Trees(_)
RECURSIVE Forests(_)
Trees(n) == IF n = 1 THEN {Type_I64} ELSE {TupleType(f) : f \in Forests(n - 1)}
Forests(k) ==
    IF k = 0 THEN {<<>>}
    ELSE UNION {{<<t>> \o f : t \in Trees(j), f \in Forests(k - j)} : j \in 1..k}

NestedSchemas == UNION {Trees(n) : n \in 2..MaxNodes}

\* the row whose i-th leaf (in leaf order) holds the integer i
LeafNumber(t, path) ==
    CHOOSE i \in 1..Len(getMultiIndices(t)) : getMultiIndices(t)[i] = path

RECURSIVE NumberedAt(_, _)
NumberedAt(t, path) ==
    IF isLeafType(fieldType(t, path)) THEN PyLong_FromLong(LeafNumber(t, path))
    ELSE PyTuple([i \in 1..Len(fieldType(t, path).ps) |->
                    NumberedAt(t, Append(path, i - 1))])

NumberedRow(t) == NumberedAt(t, <<>>)

\* tuples mixing strings, optionals and single-valued leaves
MixedSchemas ==
    { TupleType(<<Type_STRING, OptionType(Type_I64)>>),
      TupleType(<<OptionType(Type_I64), Type_NULLVALUE,
                  OptionType(Type_EMPTYTUPLE), Type_I64, Type_EMPTYTUPLE>>),
      TupleType(<<TupleType(<<OptionType(Type_STRING), Type_EMPTYDICT>>),
                  OptionType(Type_NULLVALUE), Type_BOOLEAN>>),
      TupleType(<<Type_I64, TupleType(<<Type_I64, Type_STRING>>), Type_I64>>) }

\* a flat tuple of K optional leaves that occupy no slot
WideSchema(K) == TupleType([i \in 1..K |-> OptionType(Type_EMPTYTUPLE)])

\* the row of WideSchema(K) whose null leaves are those numbered in nulls
WideRow(K, nulls) ==
    PyTuple([i \in 1..K |-> IF (i - 1) \in nulls THEN Py_None ELSE PyTuple(<<>>)])

WideInputs ==
    {<<WideSchema(9), WideRow(9, nulls)>> : nulls \in {{}, {0}, {7}, {8}, {0, 8}}}
    \cup {<<WideSchema(64 + MaxExtraOpt), WideRow(64 + MaxExtraOpt, nulls)>> :
            nulls \in {{}, {63}, {64}}}

WalkInputs ==
    {<<t, NumberedRow(t)>> : t \in NestedSchemas}
    \cup UNION {{<<t, v>> : v \in Values(t)} : t \in MixedSchemas}
    \cup WideInputs

---------------------------------------------------------------------------
(* The tuple walk as a process: createPyTupleFromMemory(mem, row_type) on  *)
(* the serialized row val.                                                 *)

Idle == [status |-> "idle"]

InitWalk ==
    /\ pc = "createPyTupleFromMemory"
    /\ \E in \in WalkInputs :
          /\ row_type = in[1]
          /\ val = in[2]
          /\ mem = serialize(in[2], in[1])
    /\ capacity = 0
    /\ walk = Idle
    /\ lst = Idle
    /\ dct = Idle
    /\ probe = 0
    /\ batch = Idle

\* lines 81-94
TupleBegin ==
    /\ pc = "createPyTupleFromMemory"
    /\ walk' = WalkInit(0, row_type)
    /\ pc' = "tuple_loop"
    /\ UNCHANGED <<row_type, val, mem, capacity, lst, dct, probe, batch>>

\* lines 96-143: one leaf; a leaf without value returns nullptr (line 135)
TupleLeaf ==
    /\ pc = "tuple_loop"
    /\ ~WalkAtEnd(walk)
    /\ walk' = WalkLeaf(walk, mem)
    /\ pc' = IF walk'.status = "running" THEN "tuple_loop" ELSE "tuple_done"
    /\ UNCHANGED <<row_type, val, mem, capacity, lst, dct, probe, batch>>

\* line 145
TupleReturn ==
    /\ pc = "tuple_loop"
    /\ WalkAtEnd(walk)
    /\ walk' = WalkReturn(walk)
    /\ pc' = "tuple_done"
    /\ UNCHANGED <<row_type, val, mem, capacity, lst, dct, probe, batch>>

NextWalk == TupleBegin \/ TupleLeaf \/ TupleReturn

SpecWalk == InitWalk /\ [][NextWalk]_vars

---------------------------------------------------------------------------
(* Properties of the tuple walk *)

WalkTypes == RowLeafTypes(row_type)
WalkPaths == getMultiIndices(row_type)

\* what the container tree holds at a leaf path
RECURSIVE HeapAt(_, _, _)
HeapAt(heap, id, path) ==
    IF Len(path) = 1 THEN heap[id].items[path[1] + 1]
    ELSE HeapAt(heap, heap[id].items[path[1] + 1].v[1], Tail(path))

\* bit (k mod 64) of the 64-bit little-endian bitmap word (k / 64)
BitmapBit(m, bitmap, k) ==
    BitOfByte(ByteAt(m, bitmap + SIZEOF_LONG * (k \div 64) + ((k % 64) \div 8)), k % 8)

RECURSIVE NumTuples(_)
NumTuples(t) ==
    IF isLeafType(t) THEN 0
    ELSE 1 + SumSeq([i \in 1..Len(t.ps) |-> NumTuples(t.ps[i])])

\* C3: the k-th optional leaf of a tuple materializes as the null sentinel
\* if and only if bit (k mod 64) of bitmap word (k / 64) is set, and as the
\* value of its inner type otherwise, also for k >= 8 and k >= 64.
C3_NullBitmap ==
    pc \in {"tuple_loop", "tuple_done"} =>
        \A j \in 1..(walk.i - 1) :
            isOptionType(WalkTypes[j]) =>
                LET k == CountTypes(isOptionType, WalkTypes, j - 1)
                    leaf == HeapAt(walk.heap, walk.obj, WalkPaths[j])
                IN  /\ BitmapBit(mem, walk.bitmap, k) <=> leaf = Py_None
                    /\ ~BitmapBit(mem, walk.bitmap, k) => leaf = ValueAt(val, WalkPaths[j])

\* C4: for a nested tuple schema whose leaves are i64 values in successive
\* 8-byte slots, the walk returns a tuple tree of the schema's shape, every
\* slot of every container assigned exactly once, the leaf at each path
\* holding the value of that path's slot: the row round-trips.
C4_NestedRoundTrip ==
    (pc = "tuple_done" /\ row_type \in NestedSchemas) =>
        /\ walk.status = "returned"
        /\ Len(walk.heap) = NumTuples(row_type)
        /\ \A id \in 1..Len(walk.heap) :
              \A p \in 1..Len(walk.heap[id].sets) : walk.heap[id].sets[p] = 1
        /\ \A j \in 1..Len(WalkPaths) :
              HeapAt(walk.heap, walk.obj, WalkPaths[j])
                = PyLong_FromLong(ReadI64(mem, SIZEOF_LONG * (j - 1)))
        /\ Reify(walk.heap, walk.obj) = val

\* the schema ((i64,i64),i64) with slots 1, 2, 3 has yielded ((1,2),3)
C4_Witness ==
    /\ pc = "tuple_done"
    /\ row_type = TupleType(<<TupleType(<<Type_I64, Type_I64>>), Type_I64>>)
    /\ walk.status = "returned"
    /\ Reify(walk.heap, walk.obj)
         = PyTuple(<<PyTuple(<<PyLong_FromLong(1), PyLong_FromLong(2)>>),
                     PyLong_FromLong(3)>>)

\* C8: when a leaf yields no value the walk returns failure having released
\* every container and leaf it allocated for the row.
C8_FailureReleasesAll ==
    (pc = "tuple_done" /\ walk.status = "failed") => Len(walk.heap) = 0

\* C10: when the i-th leaf is about to be materialized, current_buffer_index
\* is 8 times the number of earlier leaves whose type without options is not
\* single-valued and bitmap_index is the number of earlier optional leaves,
\* whether or not those optional leaves were null.
C10_WalkCursors ==
    pc = "tuple_loop" =>
        /\ walk.current_buffer_index
             = SIZEOF_LONG * CountTypes(hasSlot, WalkTypes, walk.i - 1)
        /\ walk.bitmap_index = CountTypes(isOptionType, WalkTypes, walk.i - 1)

\* after a null optional(i64) leaf, a null leaf and a null
\* optional(empty tuple) leaf, the i64 leaf is read at offset 8, two bitmap
\* bits consumed
C10_Witness ==
    /\ pc = "tuple_loop"
    /\ row_type = TupleType(<<OptionType(Type_I64), Type_NULLVALUE,
                              OptionType(Type_EMPTYTUPLE), Type_I64, Type_EMPTYTUPLE>>)
    /\ val.v[1] = Py_None
    /\ val.v[3] = Py_None
    /\ walk.i = 4
    /\ walk.current_buffer_index = 8
    /\ walk.bitmap_index = 2

\* the container the tree holds at the path of a (sub)tuple
RECURSIVE ContainerAt(_, _, _)
ContainerAt(heap, id, path) ==
    IF path = <<>> THEN id
    ELSE ContainerAt(heap, heap[id].items[path[1] + 1].v[1], Tail(path))

\* the path of the leaf the loop handled last
LastPath == WalkPaths[walk.i - 1]

\* C11: after the leaf with path p is processed obj_stack holds exactly
\* |p| - 1 containers, the ancestors of p's parent with the outermost at the
\* bottom, and curr_obj is the container at p without its last index; the
\* divergence index of the next leaf never exceeds obj_stack.size(), so the
\* unsigned pop count never underflows and obj_stack is never popped when
\* empty.
C11_ContainerStack ==
    /\ pc \in {"tuple_loop", "tuple_done"} => walk.status # "undefined" /\ ~walk.ub
    /\ (pc \in {"tuple_loop", "tuple_done"} /\ walk.status \in {"running", "returned"}
          /\ walk.i > 1) =>
         /\ Len(walk.obj_stack) = Len(LastPath) - 1
         /\ \A d \in 1..Len(walk.obj_stack) :
               walk.obj_stack[d] = ContainerAt(walk.heap, walk.obj, SubSeq(LastPath, 1, d - 1))
         /\ walk.curr_obj
               = ContainerAt(walk.heap, walk.obj, SubSeq(LastPath, 1, Len(LastPath) - 1))
    /\ (pc = "tuple_loop" /\ ~WalkAtEnd(walk)) =>
         position_diff(walk.prev, WalkPaths[walk.i]) <= Len(walk.obj_stack)

\* a leaf three levels deep has been processed after containers of the
\* previous leaf were popped: two containers are on the stack
C11_Witness ==
    /\ pc = "tuple_loop"
    /\ walk.i >= 3
    /\ Len(LastPath) >= 3
    /\ position_diff(WalkPaths[walk.i - 2], LastPath) < Len(WalkPaths[walk.i - 2]) - 1
    /\ Len(walk.obj_stack) = 2
    /\ walk.obj_stack[1] = walk.obj

---------------------------------------------------------------------------
(* The size prober as a process: serializationSize(mem, capacity,          *)
(* row_type), on a serialized row followed by arbitrary bytes, or on a     *)
(* bare descriptor.                                                        *)

\* the bytes after a row: zero, one or 0xFF in every byte
TailFills == {0, 1, 255}
TailBytes(fill) == [i \in 1..TailLen |-> fill]

SizeSchemas ==
    { Type_I64, Type_BOOLEAN, Type_STRING, Type_NULLVALUE, Type_EMPTYTUPLE,
      OptionType(Type_I64), OptionType(Type_STRING), OptionType(Type_EMPTYTUPLE),
      TupleType(<<Type_I64, Type_I64>>),
      TupleType(<<Type_I64, Type_NULLVALUE>>),
      TupleType(<<Type_STRING>>),
      TupleType(<<Type_STRING, OptionType(Type_I64)>>),
      TupleType(<<OptionType(Type_I64), Type_I64>>),
      TupleType(<<TupleType(<<Type_I64, Type_I64>>), Type_I64>>) }

\* the capacities tried for a row of n bytes
RowCapacities(n) == {c \in {n - 1, n, n + TailLen} : c >= 0}

\* a row given only by the bytes of its descriptor
RawRow == [k |-> "raw", v |-> <<>>]

U32(hi, lo) == [hi |-> hi, lo |-> lo]
LE16(n) == <<n % 256, n \div 256>>
RawDescriptor(offset, length) ==
    LE16(offset.lo) \o LE16(offset.hi) \o LE16(length.lo) \o LE16(length.hi)

\* 16, 2^31, 2^32 - 16
RawOffsets == {U32(0, 16), U32(32768, 0), U32(65535, 65520)}
\* 3, 32, 2^31, 2^32 - 1
RawLengths == {U32(0, 3), U32(0, 32), U32(32768, 0), U32(65535, 65535)}
RawCapacities == {0, 18, 19, 100}
RawTypes ==
    { Type_STRING, DictType(Type_STRING, Type_I64), Type_GENERICDICT,
      ListType(Type_I64), ListType(Type_STRING) }

InitSize ==
    /\ pc = "serializationSize"
    /\ \/ \E t \in SizeSchemas : \E v \in Values(t) : \E fill \in TailFills :
            /\ row_type = t
            /\ val = v
            /\ mem = serialize(v, t) \o TailBytes(fill)
            /\ capacity \in RowCapacities(Len(serialize(v, t)))
       \/ \E t \in RawTypes : \E offset \in RawOffsets : \E length \in RawLengths :
            /\ row_type = t
            /\ val = RawRow
            /\ mem = RawDescriptor(offset, length) \o LE64(U32Int(length)) \o TailBytes(0)
            /\ capacity \in RawCapacities
    /\ walk = Idle
    /\ lst = Idle
    /\ dct = Idle
    /\ probe = 0
    /\ batch = Idle

\* lines 319-362
Probe ==
    /\ pc = "serializationSize"
    /\ probe' = serializationSize(mem, 0, capacity, row_type)
    /\ pc' = "size_done"
    /\ UNCHANGED <<row_type, val, mem, capacity, walk, lst, dct, batch>>

NextSize == Probe

SpecSize == InitSize /\ [][NextSize]_vars

\* C1: on a serialized row, serializationSize returns exactly the row's
\* length when the capacity is at least that length and a negative value
\* otherwise, whatever bytes follow the row.
C1_SizeAgreement ==
    (pc = "size_done" /\ val # RawRow) =>
        LET n == Len(serialize(val, row_type))
        IN  /\ capacity >= n => probe = n
            /\ capacity < n => probe < 0

\* C9: for a row type with a packed varlen descriptor, serializationSize is
\* negative whenever offset + length, as a mathematical sum of the two
\* unsigned 32-bit fields, exceeds the capacity.
C9_DescriptorOverflow ==
    (pc = "size_done" /\ val = RawRow) =>
        (LimbsGreaterThan(MathSumU32(ReadU32(mem, 0), ReadU32(mem, 4)), capacity)
            => probe < 0)

---------------------------------------------------------------------------
(* The entry point as a process: a caller walks a buffer of rows of one    *)
(* schema, calling fromSerializedMemory and continuing at nextptr.         *)

BatchSchemas ==
    { Type_I64, Type_STRING, Type_NULLVALUE, OptionType(Type_I64),
      OptionType(Type_STRING),
      TupleType(<<Type_I64, Type_I64>>),
      TupleType(<<Type_I64, Type_NULLVALUE>>),
      TupleType(<<Type_STRING, OptionType(Type_I64)>>),
      Type_UNKNOWN }

Batches(t) == UNION {[1..n -> Values(t)] : n \in 1..MaxRows}

\* the first byte of row i of the batch (of the end of the rows for the
\* index after the last)
RowStart(rows, t, i) == SumSeq([j \in 1..(i - 1) |-> Len(serialize(rows[j], t))])

RowsLength(rows, t) == RowStart(rows, t, Len(rows) + 1)

InitBatch ==
    /\ pc = "fromSerializedMemory"
    /\ \E t \in BatchSchemas : \E rows \in Batches(t) : \E fill \in {0, 255} :
            /\ row_type = t
            /\ val = rows
            /\ mem = Flatten([i \in 1..Len(rows) |-> serialize(rows[i], t)])
                       \o TailBytes(fill)
            /\ capacity = RowsLength(rows, t)
    /\ batch = [ptr |-> 0, ptrs |-> <<>>, objs |-> <<>>, rets |-> <<>>, nexts |-> <<>>]
    /\ walk = Idle
    /\ lst = Idle
    /\ dct = Idle
    /\ probe = 0

\* lines 380-399, called at the cursor with the bytes left in the buffer
EntryCall ==
    /\ pc = "fromSerializedMemory"
    /\ Len(batch.objs) < Len(val)
    /\ batch.ptr = RowStart(val, row_type, Len(batch.objs) + 1)
    /\ LET r == fromSerializedMemory(mem, batch.ptr, capacity, row_type)
       IN /\ batch' = [ptr |-> r.nextptr,
                       ptrs |-> Append(batch.ptrs, batch.ptr),
                       objs |-> Append(batch.objs, r.obj),
                       rets |-> Append(batch.rets, r.ret),
                       nexts |-> Append(batch.nexts, r.nextptr)]
          /\ capacity' = RowsLength(val, row_type) - r.nextptr
    /\ UNCHANGED <<pc, row_type, val, mem, walk, lst, dct, probe>>

\* every row has been visited
BatchEnd ==
    /\ pc = "fromSerializedMemory"
    /\ Len(batch.objs) = Len(val)
    /\ pc' = "batch_done"
    /\ UNCHANGED <<row_type, val, mem, capacity, walk, lst, dct, probe, batch>>

\* the cursor is not at the next row: what the caller reads from here on is
\* not a row
BatchLost ==
    /\ pc = "fromSerializedMemory"
    /\ Len(batch.objs) < Len(val)
    /\ batch.ptr # RowStart(val, row_type, Len(batch.objs) + 1)
    /\ pc' = "batch_lost"
    /\ UNCHANGED <<row_type, val, mem, capacity, walk, lst, dct, probe, batch>>

NextBatch == EntryCall \/ BatchEnd \/ BatchLost

SpecBatch == InitBatch /\ [][NextBatch]_vars

\* a value the serializer can have written: its strings are UTF-8
RECURSIVE WellFormed(_)
WellFormed(v) ==
    CASE v.k = "str" -> \A i \in 1..Len(v.v) : v.v[i] < 128
      [] v.k = "tuple" -> \A i \in 1..Len(v.v) : WellFormed(v.v[i])
      [] OTHER -> TRUE

\* C2: over a buffer serialize(v1) ++ ... ++ serialize(vn) of one schema,
\* calling fromSerializedMemory and continuing at nextptr visits the start
\* of each row in order and yields v1, ..., vn: nextptr after row i is the
\* start of row i + 1.
C2_CursorCoherence ==
    (row_type # Type_UNKNOWN /\ \A i \in 1..Len(val) : WellFormed(val[i])) =>
        \A i \in 1..Len(batch.objs) :
            /\ batch.ptrs[i] = RowStart(val, row_type, i)
            /\ batch.objs[i] = val[i]
            /\ batch.nexts[i] = RowStart(val, row_type, i + 1)

\* C7 as claimed: the entry point reports success only for a value it
\* produced; an unknown variant yields the null sentinel and the entry point
\* reports failure (false); every known variant with a well-formed row
\* reports true.
C7_NullSentinelFails ==
    \A i \in 1..Len(batch.objs) :
        /\ batch.rets[i] => batch.objs[i] # NULLPTR
        /\ row_type = Type_UNKNOWN => (batch.objs[i] = Py_None /\ ~batch.rets[i])
        /\ (row_type # Type_UNKNOWN /\ WellFormed(val[i])) => batch.rets[i]

\* C7 (amended): the entry point returns true iff createPyObjectFromMemory
\* returned an object (anything but nullptr), the null sentinel included:
\* an unknown variant yields the null sentinel and true, and every known
\* variant with a well-formed row yields true.
C7_EntryResult ==
    \A i \in 1..Len(batch.objs) :
        /\ batch.rets[i] <=> batch.objs[i] # NULLPTR
        /\ row_type = Type_UNKNOWN => (batch.objs[i] = Py_None /\ batch.rets[i])
        /\ WellFormed(val[i]) => batch.rets[i]

\* a row of unknown type has produced the null sentinel and true
C7_Witness ==
    /\ row_type = Type_UNKNOWN
    /\ Len(batch.objs) >= 1
    /\ batch.objs[1] = Py_None
    /\ batch.rets[1] = TRUE

---------------------------------------------------------------------------
(* The typed-dictionary decoder as a process: createPyDictFromMemory on a  *)
(* dict row, one entry of the document per step.                           *)

\* the text of a key: k, hi, 42, 2, x
Text_k == <<107>>
Text_hi == <<104, 105>>
Text_42 == <<52, 50>>
Text_2 == <<50>>
Text_x == <<120>>
Text_yo == <<121, 111>>

\* entries whose key is a tag, an underscore and the text, and entries whose
\* key is two type characters and the text
DictEntries ==
    { cJSON_Number(<<Ch_s, Ch_underscore>> \o Text_k, 7),
      cJSON_String(<<Ch_s, Ch_underscore>> \o Text_x, Text_yo),
      cJSON_Number(<<Ch_i, Ch_underscore>> \o Text_42, 7),
      cJSON_Bool(<<Ch_b, Ch_underscore>> \o Text_True, FALSE),
      cJSON_Number(<<Ch_f, Ch_underscore>> \o Text_2, 3),
      cJSON_Number(<<Ch_s, Ch_i>> \o Text_k, 7),
      cJSON_String(<<Ch_s, Ch_s>> \o Text_hi, Text_yo),
      cJSON_Bool(<<Ch_i, Ch_b>> \o Text_42, TRUE),
      cJSON_Number(<<Ch_b, Ch_f>> \o Text_True, 3) }

DictDocuments == UNION {[1..n -> DictEntries] : n \in 1..MaxDictLen}

DictDocument(items) == [k |-> "dict", v |-> items]

InitDict ==
    /\ pc = "createPyDictFromMemory"
    /\ row_type \in {DictType(Type_STRING, Type_I64), Type_GENERICDICT}
    /\ \E items \in DictDocuments : val = DictDocument(items)
    /\ mem = serialize(val, row_type)
    /\ capacity = Len(mem)
    /\ walk = Idle
    /\ lst = Idle
    /\ dct = Idle
    /\ probe = 0
    /\ batch = Idle

\* lines 155-160 and 68-69: parse the document, create the dictionary
DictParse ==
    /\ pc = "createPyDictFromMemory"
    /\ LET offset == U32Int(ReadU32(mem, 0))
           dict == cJSON_Parse(CString(mem, offset))
       IN IF dict.ok
          THEN /\ dct' = [status |-> "running", items |-> dict.child,
                          cur_item |-> 1, dictObj |-> PyDict(<<>>)]
               /\ pc' = "dict_loop"
          ELSE /\ dct' = [status |-> "failed"]
               /\ pc' = "dict_failed"
    /\ UNCHANGED <<row_type, val, mem, capacity, walk, lst, probe, batch>>

\* lines 70-76: one entry
DictItem ==
    /\ pc = "dict_loop"
    /\ dct.cur_item <= Len(dct.items)
    /\ dct' = [dct EXCEPT
                 !.dictObj = PyDict_FromCJSON_Item(dct.dictObj, dct.items[dct.cur_item]),
                 !.cur_item = dct.cur_item + 1]
    /\ UNCHANGED <<pc, row_type, val, mem, capacity, walk, lst, probe, batch>>

\* line 77
DictReturn ==
    /\ pc = "dict_loop"
    /\ dct.cur_item > Len(dct.items)
    /\ dct' = [dct EXCEPT !.status = "returned"]
    /\ pc' = "dict_done"
    /\ UNCHANGED <<row_type, val, mem, capacity, walk, lst, probe, batch>>

NextDict == DictParse \/ DictItem \/ DictReturn

SpecDict == InitDict /\ [][NextDict]_vars

\* the value stored under a key (nullptr if none)
Lookup(dictObj, keyObj) ==
    LET S == {j \in 1..Len(dictObj.v) : dictObj.v[j][1] = keyObj}
    IN IF S = {} THEN NULLPTR ELSE dictObj.v[CHOOSE j \in S : TRUE][2]

\* the value of a JSON item read as tag c says: s the string body, b the
\* boolean, i the number as integer, f the number as double
JSONValue(item, c) ==
    CASE c = Ch_s /\ item.type = "String" -> PyStr(item.valuestring)
      [] c = Ch_b /\ item.type \in {"True", "False"} ->
            PyBool_FromLong(IF item.type = "True" THEN 1 ELSE 0)
      [] c = Ch_i /\ item.type = "Number" -> PyLong_FromLong(item.valuedouble)
      [] c = Ch_f /\ item.type = "Number" -> PyFloat_FromDouble(item.valuedouble)
      [] OTHER -> Py_None

TaggedKey(key) ==
    Len(key) >= 2 /\ key[1] \in {Ch_s, Ch_b, Ch_i, Ch_f} /\ key[2] = Ch_underscore

\* the entry the loop handled last
LastItem == dct.items[dct.cur_item - 1]

DictLoopRan == pc \in {"dict_loop", "dict_done"} /\ dct.cur_item > 1

\* C5 as claimed: an entry whose key is '<tag>_<text>' has its value decoded
\* by that tag, never gets the null sentinel as its value, and the document
\* {"s_k":7} materializes as {"k":7}.
C5_ValueBySameTag ==
    /\ (DictLoopRan /\ TaggedKey(LastItem.string)) =>
         LET value == Lookup(dct.dictObj, PyObj_FromCJSONKey(LastItem.string))
             tagged == JSONValue(LastItem, LastItem.string[1])
         IN /\ value # Py_None
            /\ tagged # Py_None => value = tagged
    /\ (pc = "dict_done"
          /\ val.v = <<cJSON_Number(<<Ch_s, Ch_underscore>> \o Text_k, 7)>>) =>
         dct.dictObj = PyDict(<< <<PyStr(Text_k), PyLong_FromLong(7)>> >>)

\* C5 (amended): the key is decoded by its first character and the text from
\* the third character on; the value is decoded by the key's SECOND
\* character (s, b, i, f), and any other second character, the underscore
\* included, gives the null sentinel as the value: {"s_k":7} materializes
\* as {"k":None} and {"sik":7} as {"k":7}.
C5_ValueBySecondChar ==
    /\ DictLoopRan =>
         Lookup(dct.dictObj, PyObj_FromCJSONKey(LastItem.string))
            = JSONValue(LastItem, LastItem.string[2])
    /\ (pc = "dict_done"
          /\ val.v = <<cJSON_Number(<<Ch_s, Ch_underscore>> \o Text_k, 7)>>) =>
         dct.dictObj = PyDict(<< <<PyStr(Text_k), Py_None>> >>)
    /\ (pc = "dict_done" /\ val.v = <<cJSON_Number(<<Ch_s, Ch_i>> \o Text_k, 7)>>) =>
         dct.dictObj = PyDict(<< <<PyStr(Text_k), PyLong_FromLong(7)>> >>)

\* the document {"s_k":7} has been decoded, to {"k":None}
C5_Witness ==
    /\ pc = "dict_done"
    /\ val.v = <<cJSON_Number(<<Ch_s, Ch_underscore>> \o Text_k, 7)>>
    /\ dct.dictObj = PyDict(<< <<PyStr(Text_k), Py_None>> >>)

---------------------------------------------------------------------------
(* The list materializer as a process: createPyListFromMemory on a list    *)
(* row, one element per step.  A list(string) row is laid out with its     *)
(* offsets measured either from the first offset slot or from each         *)
(* offset's own slot.                                                      *)

ListStrs == {<<>>, <<97>>, <<98, 99>>, <<104, 105, 33>>}
ListLayouts == {"first", "own"}

\* the offset written for string i (from 0) of strs
StringOffset(strs, i, layout) ==
    LET before == SumSeq([j \in 1..i |-> Len(strs[j]) + 1])
    IN IF layout = "first" THEN SIZEOF_LONG * Len(strs) + before
       ELSE SIZEOF_LONG * (Len(strs) - i) + before

\* count, offsets, NUL-terminated strings
StringListRegion(strs, layout) ==
    LE64(Len(strs))
    \o Flatten([i \in 1..Len(strs) |-> LE64(StringOffset(strs, i - 1, layout))])
    \o Flatten([i \in 1..Len(strs) |-> strs[i] \o <<0>>])

\* count, 8-byte elements
PrimitiveListRegion(xs) == LE64(Len(xs)) \o Flatten([i \in 1..Len(xs) |-> LE64(xs[i])])

\* the slot, the length of the varlen region, the region
ListRow(region) ==
    Descriptor(2 * SIZEOF_LONG, Len(region)) \o LE64(Len(region)) \o region

ListValues(S) == UNION {[1..n -> S] : n \in 0..MaxListLen}

InitList ==
    /\ pc = "createPyListFromMemory"
    /\ \/ \E strs \in ListValues(ListStrs) : \E layout \in ListLayouts :
            /\ row_type = ListType(Type_STRING)
            /\ val = [k |-> "list", v |-> [i \in 1..Len(strs) |-> PyStr(strs[i])],
                      layout |-> layout]
            /\ mem = ListRow(StringListRegion(strs, layout)) \o TailBytes(0)
       \/ \E xs \in ListValues(IntVals) :
            /\ row_type = ListType(Type_I64)
            /\ val = [k |-> "list", v |-> [i \in 1..Len(xs) |-> PyLong_FromLong(xs[i])],
                      layout |-> "primitive"]
            /\ mem = ListRow(PrimitiveListRegion(xs)) \o TailBytes(0)
    /\ capacity = Len(mem)
    /\ walk = Idle
    /\ lst = Idle
    /\ dct = Idle
    /\ probe = 0
    /\ batch = Idle

\* lines 194-204
ListBegin ==
    /\ pc = "createPyListFromMemory"
    /\ lst' = ListInit(mem, 0, row_type)
    /\ pc' = "list_loop"
    /\ UNCHANGED <<row_type, val, mem, capacity, walk, dct, probe, batch>>

\* lines 206-236
ListStep ==
    /\ pc = "list_loop"
    /\ ~ListAtEnd(lst)
    /\ lst' = ListElement(lst, mem)
    /\ UNCHANGED <<pc, row_type, val, mem, capacity, walk, dct, probe, batch>>

\* line 237
ListEnd ==
    /\ pc = "list_loop"
    /\ ListAtEnd(lst)
    /\ lst' = ListReturn(lst)
    /\ pc' = "list_done"
    /\ UNCHANGED <<row_type, val, mem, capacity, walk, dct, probe, batch>>

NextList == ListBegin \/ ListStep \/ ListEnd

SpecList == InitList /\ [][NextList]_vars

\* C6 as claimed: with the N offsets each measured from the start of the
\* first offset slot, createPyListFromMemory returns the N strings in order
\* with their exact contents, for every N >= 0.
C6_OffsetsFromFirstSlot ==
    (pc = "list_done" /\ val.layout = "first") => lst.ret = val.v

\* C6 (amended): with each of the N offsets measured from the start of its
\* own offset slot, and the descriptor's length that of the whole varlen
\* region (count, offsets, strings), createPyListFromMemory returns the N
\* strings in order with their exact contents, for every N >= 0; a list of
\* i64 returns its elements in order.
C6_OffsetsFromOwnSlot ==
    (pc = "list_done" /\ val.layout \in {"own", "primitive"}) => lst.ret = val.v

\* count 2, offsets 16 and 10, "a" and "bc" have been decoded to ["a","bc"]
C6_Witness ==
    /\ pc = "list_done"
    /\ val.layout = "own"
    /\ ReadI64(mem, 3 * SIZEOF_LONG) = 16
    /\ ReadI64(mem, 4 * SIZEOF_LONG) = 10
    /\ lst.ret = <<PyStr(<<97>>), PyStr(<<98, 99>>)>>

=============================================================================
